---- MODULE Spec2Model ----
(***************************************************************************)
(* Verification model of the next-template repository: the zod validation  *)
(* schemas, the sign-in / sign-up / useAuthForm submit handlers, the       *)
(* Header component, the Bicep infrastructure templates and the            *)
(* scripts/setup-oidc.sh script.                                           *)
(*                                                                         *)
(* Strings that are validated are modelled as sequences of one-character   *)
(* strings, so that length and character-class checks are computed.        *)
(***************************************************************************)
EXTENDS Integers, Sequences, FiniteSets, TLC

VARIABLES
    \* --- schema layer (src/lib/validations/auth.ts) ---
    schemaName,     \* which schema safeParse is applied to
    input,          \* the object handed to safeParse
    result,         \* the value safeParse returned, or NotParsed
    \* --- form components (sign-in page, sign-up page, useAuthForm) ---
    component,      \* "SignIn" | "SignUp" | "useAuthForm"
    schema,         \* the schema the component validates with
    redirectTo,     \* the route pushed after a successful auth call
    formData,       \* useState: field -> value
    errors,         \* useState: field -> message or Undefined
    submitError,    \* useState: string
    loading,        \* useState: boolean
    submits,        \* log of handleSubmit invocations
    authCalls,      \* calls made to the auth client, with their status
    routerCalls,    \* calls made to the router, in order
    event,          \* the handler of the form that ran last, with its arguments
    \* --- Header component ---
    isPending,      \* authClient.useSession().isPending
    session,        \* authClient.useSession().data
    nav,            \* what the <nav> element renders
    signOuts,       \* number of handleSignOut calls awaiting signOut()
    headerRouter,   \* calls the Header made to the router, in order
    \* --- infrastructure: the modules ---
    environment,    \* the environment parameter of the deployment
    deployed,       \* modules deployed so far, in deployment order
    outputs,        \* module outputs available so far
    deployParams,   \* values of the deployment's parameters
    containerApp,   \* the Microsoft.App/containerApps resource, once deployed
    \* --- infrastructure: main.bicep ---
    enableApplicationInsights,  \* parameter of main.bicep
    created,        \* resources of main.bicep created so far
    appName,        \* parameter appName of main.bicep
    location,       \* parameter location of main.bicep
    storageName,    \* the name the storage account was created with
    \* --- scripts/setup-oidc.sh ---
    pc,             \* the command the script runs next, or "exited"
    stdout,         \* the lines the script printed, as <<label, value>>
    azCalls,        \* the az commands run after the login check, with outcome
    exitStatus,     \* the script's exit status, -1 while it runs
    subscriptionId, \* SUBSCRIPTION_ID
    tenantId,       \* TENANT_ID
    appId,          \* APP_ID
    envs            \* the environments the for loop still has to handle

schemaVars == <<schemaName, input, result>>
formVars == <<component, schema, redirectTo, formData, errors, submitError,
              loading, submits, authCalls, routerCalls, event>>
headerVars == <<isPending, session, nav, signOuts, headerRouter>>
moduleVars == <<deployed, outputs, deployParams, containerApp>>
mainVars == <<enableApplicationInsights, created, appName, location,
              storageName>>
oidcVars == <<pc, stdout, azCalls, exitStatus, subscriptionId, tenantId, appId,
              envs>>
vars == <<schemaVars, formVars, headerVars, environment, moduleVars, mainVars,
          oidcVars>>

-----------------------------------------------------------------------------
(* Bounds of the model *)

\* longest password enumerated for the schema checks
MaxPwLen == 8
\* longest email enumerated for the schema checks
MaxEmailLen == 6
\* how far beyond the name's maximum length the enumerated names go
NameSlack == 2
\* number of handleSubmit invocations followed per form
MaxSubmits == 2
\* number of clicks on Sign Out followed
MaxSignOuts == 4

-----------------------------------------------------------------------------
(* Characters and strings *)

UpperAZ == {"A","B","C","D","E","F","G","H","I","J","K","L","M",
            "N","O","P","Q","R","S","T","U","V","W","X","Y","Z"}
LowerAZ == {"a","b","c","d","e","f","g","h","i","j","k","l","m",
            "n","o","p","q","r","s","t","u","v","w","x","y","z"}
Digit09 == {"0","1","2","3","4","5","6","7","8","9"}
Letter == UpperAZ \cup LowerAZ
Alnum == Letter \cup Digit09

\* the string of n copies of character c
Rep(c, n) == [i \in 1..n |-> c]

\* all strings over alphabet A of length at most n
StringsUpTo(A, n) == UNION {[1..k -> A] : k \in 0..n}

\* RegExp.test for a character-class pattern such as /[A-Z]/
TestClass(class, s) == \E i \in 1..Len(s) : s[i] \in class

-----------------------------------------------------------------------------
(* zod: the checks used by src/lib/validations/auth.ts *)

Issue(field, message) == [path |-> <<field>>, message |-> message]

\* z.string().min(n, message): one issue when the string is too short
MinCheck(field, s, n, message) ==
    IF Len(s) < n THEN <<Issue(field, message)>> ELSE <<>>

\* z.string().max(n, message): one issue when the string is too long
MaxCheck(field, s, n, message) ==
    IF Len(s) > n THEN <<Issue(field, message)>> ELSE <<>>

\* z.string().regex(/[class]/, message)
RegexCheck(field, s, class, message) ==
    IF TestClass(class, s) THEN <<>> ELSE <<Issue(field, message)>>

\* zod's email pattern:
\* /^(?!\.)(?!.*\.\.)([A-Za-z0-9_'+\-\.]*)[A-Za-z0-9_+-]@([A-Za-z0-9][A-Za-z0-9\-]*\.)+[A-Za-z]{2,}$/
LocalChars == Alnum \cup {"_", "'", "+", "-", "."}
LocalLast == Alnum \cup {"_", "+", "-"}
DomainOk(d) ==
    LET dots == {p \in 1..Len(d) : d[p] = "."}
    IN  /\ dots # {}
        /\ LET last == CHOOSE p \in dots : \A q \in dots : q <= p
           IN  /\ Len(d) - last >= 2
               /\ \A i \in (last + 1)..Len(d) : d[i] \in Letter
               /\ d[1] \in Alnum
               /\ \A i \in 1..last : d[i] \in Alnum \cup {"-", "."}
               /\ \A p \in dots : p < last => d[p + 1] \in Alnum
IsEmail(s) ==
    /\ Len(s) > 0
    /\ s[1] # "."
    /\ \A i \in 1..(Len(s) - 1) : ~(s[i] = "." /\ s[i + 1] = ".")
    /\ \E k \in 2..Len(s) :
          /\ s[k] = "@"
          /\ \A i \in 1..(k - 2) : s[i] \in LocalChars
          /\ s[k - 1] \in LocalLast
          /\ DomainOk(SubSeq(s, k + 1, Len(s)))

\* z.email(message)
EmailCheck(field, s, message) ==
    IF IsEmail(s) THEN <<>> ELSE <<Issue(field, message)>>

\* ZodObject.safeParse: the fields are parsed in shape order and the issues of
\* all of them are collected; data has exactly the keys of the shape.
SafeParse(shape, issues, obj) ==
    IF issues = <<>>
    THEN [success |-> TRUE, data |-> [f \in shape |-> obj[f]], issues |-> <<>>]
    ELSE [success |-> FALSE, data |-> <<>>, issues |-> issues]

-----------------------------------------------------------------------------
(* src/lib/validations/auth.ts *)

NameMin == 2
NameMax == 100
PasswordMin == 8

SignInFields == {"email", "password"}
SignUpFields == {"name", "email", "password"}

\* a variant that stops at the first invalid field
signInIssues_FirstOnly(obj) ==
    IF EmailCheck("email", obj.email, "Invalid email address") # <<>>
    THEN EmailCheck("email", obj.email, "Invalid email address")
    ELSE MinCheck("password", obj.password, 1, "Password is required")

signInIssues(obj) ==
    EmailCheck("email", obj.email, "Invalid email address")
    \o MinCheck("password", obj.password, 1, "Password is required")

signInSchema(obj) == SafeParse(SignInFields, signInIssues(obj), obj)

signUpNameIssues(s) ==
    MinCheck("name", s, NameMin, "Name must be at least 2 characters")
    \o MaxCheck("name", s, NameMax, "Name must be less than 100 characters")

\* a variant without the lowercase rule
signUpPasswordIssues_NoLowercase(s) ==
    MinCheck("password", s, PasswordMin, "Password must be at least 8 characters")
    \o RegexCheck("password", s, UpperAZ,
                  "Password must contain at least one uppercase letter")
    \o RegexCheck("password", s, Digit09,
                  "Password must contain at least one number")

signUpPasswordIssues(s) ==
    MinCheck("password", s, PasswordMin, "Password must be at least 8 characters")
    \o RegexCheck("password", s, UpperAZ,
                  "Password must contain at least one uppercase letter")
    \o RegexCheck("password", s, LowerAZ,
                  "Password must contain at least one lowercase letter")
    \o RegexCheck("password", s, Digit09,
                  "Password must contain at least one number")

signUpIssues(obj) ==
    signUpNameIssues(obj.name)
    \o EmailCheck("email", obj.email, "Invalid email address")
    \o signUpPasswordIssues(obj.password)

signUpSchema(obj) == SafeParse(SignUpFields, signUpIssues(obj), obj)

FieldsOf(s) == IF s = "signInSchema" THEN SignInFields ELSE SignUpFields
Parse(s, obj) == IF s = "signInSchema" THEN signInSchema(obj) ELSE signUpSchema(obj)

-----------------------------------------------------------------------------
(* Values the variables of a component hold while another one is checked *)

\* JavaScript's null
Null == [null |-> TRUE]

\* safeParse never returns a failure without issues: this value marks "no result"
NotParsed == [success |-> FALSE, data |-> <<>>, issues |-> <<>>]
Parsed == result.success \/ result.issues # <<>>

SchemaIdle == schemaName = "none" /\ input = <<>> /\ result = NotParsed
Event(handler, field, value) ==
    [handler |-> handler, field |-> field, value |-> value]
NoEvent == Event("none", "", <<>>)
FormIdle ==
    /\ component = "none" /\ schema = "none" /\ redirectTo = ""
    /\ formData = <<>> /\ errors = <<>> /\ submitError = "" /\ loading = FALSE
    /\ submits = <<>> /\ authCalls = <<>> /\ routerCalls = <<>>
    /\ event = NoEvent
HeaderIdle ==
    /\ isPending = TRUE /\ session = Null /\ nav = <<>>
    /\ signOuts = 0 /\ headerRouter = <<>>
NoDeployParams ==
    [administratorPassword |-> "", betterAuthSecret |-> "", betterAuthUrl |-> "",
     containerImage |-> ""]
NoContainerApp == [image |-> "", registries |-> <<>>, secrets |-> <<>>, env |-> <<>>]
ModulesIdle ==
    /\ deployed = <<>> /\ outputs = {}
    /\ deployParams = NoDeployParams /\ containerApp = NoContainerApp
MainIdle ==
    /\ enableApplicationInsights = FALSE /\ created = {}
    /\ appName = <<>> /\ location = <<>> /\ storageName = <<>>
OidcIdle ==
    /\ pc = "none" /\ stdout = <<>> /\ azCalls = <<>> /\ exitStatus = -1
    /\ subscriptionId = "" /\ tenantId = "" /\ appId = "" /\ envs = <<>>

-----------------------------------------------------------------------------
(* The schemas as pure functions: safeParse applied to enumerated inputs *)

PwAlphabet == {"A", "a", "1", "!"}
EmailAlphabet == {"a", "1", "@", ".", "-"}

ValidName == <<"A", "l">>
ValidEmail == <<"a", "@", "b", ".", "c", "c">>
BadEmail == <<"a", "@", "b">>
ValidPassword == <<"A", "a", "1", "a", "a", "a", "a", "a">>
WeakPassword == <<"a", "a", "a">>

NameInputs ==
    [name : {Rep("a", n) : n \in 0..(NameMax + NameSlack)},
     email : {ValidEmail, BadEmail},
     password : {ValidPassword, WeakPassword}]
PasswordInputs ==
    [name : {ValidName}, email : {ValidEmail},
     password : StringsUpTo(PwAlphabet, MaxPwLen)]
SignInInputs ==
    [email : StringsUpTo(EmailAlphabet, MaxEmailLen),
     password : {<<>>, <<"a">>, ValidPassword}]

SchemaInit ==
    /\ \/ schemaName = "signUpSchema" /\ input \in NameInputs \cup PasswordInputs
       \/ schemaName = "signInSchema" /\ input \in SignInInputs
    /\ result = NotParsed
    /\ FormIdle /\ HeaderIdle /\ ModulesIdle /\ MainIdle /\ OidcIdle
    /\ environment = "dev"

SafeParseSignIn ==
    /\ schemaName = "signInSchema"
    /\ ~Parsed
    /\ result' = signInSchema(input)
    /\ UNCHANGED <<schemaName, input, formVars, headerVars, environment,
                   moduleVars, mainVars, oidcVars>>

SafeParseSignUp ==
    /\ schemaName = "signUpSchema"
    /\ ~Parsed
    /\ result' = signUpSchema(input)
    /\ UNCHANGED <<schemaName, input, formVars, headerVars, environment,
                   moduleVars, mainVars, oidcVars>>

SchemaNext == SafeParseSignIn \/ SafeParseSignUp

SpecSchema == SchemaInit /\ [][SchemaNext]_vars

-----------------------------------------------------------------------------
(* The form components: src/app/sign-in/page.tsx, src/app/sign-up/page.tsx *)
(* and src/lib/hooks/use-auth-form.ts.  They share one shape: four useState *)
(* cells, handleChange, and the async handleSubmit, whose part after the    *)
(* await runs when the auth call settles.  handleSubmit does not look at    *)
(* loading: only the pages' submit button does, so the handler is modelled  *)
(* as callable whenever the component is mounted (the hook hands it to its  *)
(* caller; a page's form can be submitted with requestSubmit()).            *)

\* the value of a key that is absent or was set to undefined
Undefined == "<undefined>"
\* JavaScript truthiness of a string-or-undefined value
Truthy(m) == m # Undefined /\ m # ""

\* the components, with the schema they validate with and where they redirect;
\* useAuthForm takes both from its options (redirectTo defaults to "/")
FormConfigs ==
    { [component |-> "SignIn", schema |-> "signInSchema", redirectTo |-> "/"],
      [component |-> "SignUp", schema |-> "signUpSchema", redirectTo |-> "/"],
      [component |-> "useAuthForm", schema |-> "signInSchema", redirectTo |-> "/"],
      [component |-> "useAuthForm", schema |-> "signUpSchema",
       redirectTo |-> "/dashboard"] }

\* the message shown when the auth client's error carries none
Fallback(c) ==
    CASE c = "SignIn" -> "Failed to sign in"
      [] c = "SignUp" -> "Failed to sign up"
      [] OTHER -> "An error occurred"

\* values typed into a field
FieldValues(f) ==
    CASE f = "name" -> {<<>>, ValidName}
      [] f = "email" -> {BadEmail, ValidEmail}
      [] OTHER -> {WeakPassword, ValidPassword}

\* error objects the auth client resolves with
AuthErrors ==
    { [message |-> Undefined], [message |-> "Invalid credentials"],
      [message |-> ""] }

\* the error property of a response that carries none
NoError == [message |-> "<no error>"]

NoErrors(fields) == [f \in fields |-> Undefined]

FormInit ==
    /\ \E c \in FormConfigs :
          /\ component = c.component
          /\ schema = c.schema
          /\ redirectTo = c.redirectTo
    /\ formData = [f \in FieldsOf(schema) |-> <<>>]
    /\ errors = NoErrors(FieldsOf(schema))
    /\ submitError = ""
    /\ loading = FALSE
    /\ submits = <<>>
    /\ authCalls = <<>>
    /\ routerCalls = <<>>
    /\ event = NoEvent
    /\ SchemaIdle /\ HeaderIdle /\ ModulesIdle /\ MainIdle /\ OidcIdle
    /\ environment = "dev"

\* a variant that clears the errors of all fields
handleChange_ClearsAll(field, value) ==
    /\ event' = Event("handleChange", field, value)
    /\ formData' = [formData EXCEPT ![field] = value]
    /\ errors' = NoErrors(FieldsOf(schema))
    /\ UNCHANGED <<component, schema, redirectTo, submitError, loading,
                   submits, authCalls, routerCalls>>

\* handleChange(field, value)
handleChange(field, value) ==
    /\ event' = Event("handleChange", field, value)
    /\ formData' = [formData EXCEPT ![field] = value]
    /\ errors' = IF Truthy(errors[field])
                 THEN [errors EXCEPT ![field] = Undefined]
                 ELSE errors
    /\ UNCHANGED <<component, schema, redirectTo, submitError, loading,
                   submits, authCalls, routerCalls>>

\* the loop of handleSubmit that fills fieldErrors: a later issue of a field
\* overwrites an earlier one
RECURSIVE fieldErrors(_, _, _)
fieldErrors(acc, issues, i) ==
    IF i > Len(issues) THEN acc
    ELSE fieldErrors([acc EXCEPT ![issues[i].path[1]] = issues[i].message],
                     issues, i + 1)

\* the auth calls that have not settled
InFlight == {k \in 1..Len(authCalls) : authCalls[k].status = "pending"}

\* a variant that leaves submitError as it is
handleSubmit_KeepsSubmitError ==
    /\ Len(submits) < MaxSubmits
    /\ event' = Event("handleSubmit", "", <<>>)
    /\ LET r == Parse(schema, formData)
           id == Len(submits) + 1
       IN  /\ submits' = Append(submits, [formData |-> formData,
                                          valid |-> r.success,
                                          overlaps |-> InFlight # {}])
           /\ IF ~r.success
              THEN /\ errors' = fieldErrors(NoErrors(FieldsOf(schema)),
                                            r.issues, 1)
                   /\ UNCHANGED <<loading, authCalls>>
              ELSE /\ errors' = NoErrors(FieldsOf(schema))
                   /\ loading' = TRUE
                   /\ authCalls' = Append(authCalls,
                          [submit |-> id, data |-> r.data, status |-> "pending",
                           error |-> NoError])
    /\ UNCHANGED <<component, schema, redirectTo, formData, routerCalls,
                   submitError>>

\* a variant without the return after a failed validation
handleSubmit_NoReturn ==
    /\ Len(submits) < MaxSubmits
    /\ event' = Event("handleSubmit", "", <<>>)
    /\ LET r == Parse(schema, formData)
           id == Len(submits) + 1
       IN  /\ submitError' = ""
           /\ submits' = Append(submits, [formData |-> formData,
                                          valid |-> r.success,
                                          overlaps |-> InFlight # {}])
           /\ errors' = IF r.success THEN NoErrors(FieldsOf(schema))
                        ELSE fieldErrors(NoErrors(FieldsOf(schema)), r.issues, 1)
           /\ loading' = TRUE
           /\ authCalls' = Append(authCalls,
                  [submit |-> id, data |-> formData, status |-> "pending",
                   error |-> NoError])
    /\ UNCHANGED <<component, schema, redirectTo, formData, routerCalls>>

\* handleSubmit up to its first return or to the await of the auth call
handleSubmit ==
    /\ Len(submits) < MaxSubmits
    /\ event' = Event("handleSubmit", "", <<>>)
    /\ LET r == Parse(schema, formData)
           id == Len(submits) + 1
       IN  /\ submitError' = ""
           /\ submits' = Append(submits, [formData |-> formData,
                                          valid |-> r.success,
                                          overlaps |-> InFlight # {}])
           /\ IF ~r.success
              THEN /\ errors' = fieldErrors(NoErrors(FieldsOf(schema)),
                                            r.issues, 1)
                   /\ UNCHANGED <<loading, authCalls>>
              ELSE /\ errors' = NoErrors(FieldsOf(schema))
                   /\ loading' = TRUE
                   /\ authCalls' = Append(authCalls,
                          [submit |-> id, data |-> r.data, status |-> "pending",
                           error |-> NoError])
    /\ UNCHANGED <<component, schema, redirectTo, formData, routerCalls>>

\* handleSubmit after the await: the auth call resolved with an error
authError(i, error) ==
    /\ authCalls[i].status = "pending"
    /\ event' = Event("authResponse", "", <<>>)
    /\ authCalls' = [authCalls EXCEPT ![i].status = "error", ![i].error = error]
    /\ submitError' = IF error.message = Undefined
                      THEN Fallback(component)
                      ELSE error.message
    /\ loading' = FALSE
    /\ UNCHANGED <<component, schema, redirectTo, formData, errors, submits,
                   routerCalls>>

\* a variant that refreshes before it pushes
authOk_RefreshFirst(i) ==
    /\ authCalls[i].status = "pending"
    /\ event' = Event("authResponse", "", <<>>)
    /\ authCalls' = [authCalls EXCEPT ![i].status = "ok"]
    /\ routerCalls' = routerCalls \o
          << [submit |-> authCalls[i].submit, call |-> "refresh", arg |-> ""],
             [submit |-> authCalls[i].submit, call |-> "push", arg |-> redirectTo] >>
    /\ UNCHANGED <<component, schema, redirectTo, formData, errors,
                   submitError, loading, submits>>

\* handleSubmit after the await: the auth call resolved without an error
authOk(i) ==
    /\ authCalls[i].status = "pending"
    /\ event' = Event("authResponse", "", <<>>)
    /\ authCalls' = [authCalls EXCEPT ![i].status = "ok"]
    /\ routerCalls' = routerCalls \o
          << [submit |-> authCalls[i].submit, call |-> "push", arg |-> redirectTo],
             [submit |-> authCalls[i].submit, call |-> "refresh", arg |-> ""] >>
    /\ UNCHANGED <<component, schema, redirectTo, formData, errors,
                   submitError, loading, submits>>

\* the awaited promise rejected: handleSubmit ends with the exception, there is
\* no try/catch around the await
authRejects(i) ==
    /\ authCalls[i].status = "pending"
    /\ event' = Event("authResponse", "", <<>>)
    /\ authCalls' = [authCalls EXCEPT ![i].status = "rejected"]
    /\ UNCHANGED <<component, schema, redirectTo, formData, errors,
                   submitError, loading, submits, routerCalls>>

Change ==
    /\ \E f \in FieldsOf(schema) : \E v \in FieldValues(f) : handleChange(f, v)
    /\ UNCHANGED <<schemaVars, headerVars, environment, moduleVars, mainVars, oidcVars>>
Submit ==
    /\ handleSubmit
    /\ UNCHANGED <<schemaVars, headerVars, environment, moduleVars, mainVars, oidcVars>>
AuthError ==
    /\ \E i \in 1..Len(authCalls) : \E e \in AuthErrors : authError(i, e)
    /\ UNCHANGED <<schemaVars, headerVars, environment, moduleVars, mainVars, oidcVars>>
AuthOk ==
    /\ \E i \in 1..Len(authCalls) : authOk(i)
    /\ UNCHANGED <<schemaVars, headerVars, environment, moduleVars, mainVars, oidcVars>>
AuthRejects ==
    /\ \E i \in 1..Len(authCalls) : authRejects(i)
    /\ UNCHANGED <<schemaVars, headerVars, environment, moduleVars, mainVars, oidcVars>>

FormNext == Change \/ Submit \/ AuthError \/ AuthOk \/ AuthRejects

SpecForm == FormInit /\ [][FormNext]_vars

-----------------------------------------------------------------------------
(* src/components/header.tsx *)

\* the sessions authClient.useSession() can deliver
Sessions ==
    { [user |-> [email |-> e]] : e \in {"ann@example.com", "bob@example.com",
                                        "cy@example.com"} }

Element(el, text, href) == [el |-> el, text |-> text, href |-> href]

\* a variant that does not look at isPending
HeaderNav_IgnoresPending(pending, sess) ==
    IF sess # Null
    THEN << Element("span", sess.user.email, ""),
            Element("Button", "Sign Out", "") >>
    ELSE << Element("Link", "Sign In", "/sign-in"),
            Element("Link", "Sign Up", "/sign-up") >>

\* the children of <nav>: isPending ? null : session ? (...) : (...)
HeaderNav(pending, sess) ==
    IF pending THEN <<>>
    ELSE IF sess # Null
         THEN << Element("span", sess.user.email, ""),
                 Element("Button", "Sign Out", "") >>
         ELSE << Element("Link", "Sign In", "/sign-in"),
                 Element("Link", "Sign Up", "/sign-up") >>

HeaderInit ==
    /\ isPending = TRUE
    /\ session = Null
    /\ nav = HeaderNav(isPending, session)
    /\ signOuts = 0
    /\ headerRouter = <<>>
    /\ SchemaIdle /\ FormIdle /\ ModulesIdle /\ MainIdle /\ OidcIdle
    /\ environment = "dev"

\* useSession starts to (re)fetch the session: the Header renders again
SessionPending ==
    /\ ~isPending
    /\ isPending' = TRUE
    /\ nav' = HeaderNav(isPending', session)
    /\ UNCHANGED <<session, signOuts, headerRouter>>
    /\ UNCHANGED <<schemaVars, formVars, environment, moduleVars, mainVars, oidcVars>>

\* useSession delivers a session or null: the Header renders again
SessionLoaded ==
    /\ \E sess \in Sessions \cup {Null} :
          /\ isPending' = FALSE
          /\ session' = sess
          /\ nav' = HeaderNav(isPending', session')
    /\ UNCHANGED <<signOuts, headerRouter>>
    /\ UNCHANGED <<schemaVars, formVars, environment, moduleVars, mainVars, oidcVars>>

\* handleSignOut up to the await, started by a click on the Sign Out button
handleSignOut ==
    /\ \E k \in 1..Len(nav) : nav[k].el = "Button" /\ nav[k].text = "Sign Out"
    /\ signOuts + Len(headerRouter) \div 2 < MaxSignOuts
    /\ signOuts' = signOuts + 1
    /\ UNCHANGED <<isPending, session, nav, headerRouter>>
    /\ UNCHANGED <<schemaVars, formVars, environment, moduleVars, mainVars, oidcVars>>

\* handleSignOut after authClient.signOut() resolved
signOutDone ==
    /\ signOuts > 0
    /\ signOuts' = signOuts - 1
    /\ headerRouter' = headerRouter \o <<"push /", "refresh">>
    /\ UNCHANGED <<isPending, session, nav>>
    /\ UNCHANGED <<schemaVars, formVars, environment, moduleVars, mainVars, oidcVars>>

HeaderNext == SessionPending \/ SessionLoaded \/ handleSignOut \/ signOutDone

SpecHeader == HeaderInit /\ [][HeaderNext]_vars

-----------------------------------------------------------------------------
(* infrastructure/modules/*.bicep: the five modules *)

Environments == {"dev", "test", "staging", "prod"}

Modules == {"identity", "registry", "monitoring", "database", "compute"}

\* the param declarations of each module
ModuleParams(m) ==
    CASE m = "identity" -> {"identityName", "location"}
      [] m = "registry" -> {"acrName", "location", "identityPrincipalId", "sku"}
      [] m = "monitoring" ->
            {"logAnalyticsName", "appInsightsName", "location", "environment"}
      [] m = "database" ->
            {"serverName", "location", "environment", "administratorLogin",
             "administratorPassword", "databaseName"}
      [] OTHER ->
            {"environmentName", "containerAppName", "location", "environment",
             "logAnalyticsCustomerId", "logAnalyticsSharedKey",
             "appInsightsConnectionString", "acrLoginServer", "identityId",
             "containerImage", "databaseUrl", "betterAuthSecret",
             "betterAuthUrl"}

\* a variant in which the monitoring module does not output the shared key
ModuleOutputs_NoSharedKey(m) ==
    CASE m = "identity" -> {"identityId", "principalId", "clientId"}
      [] m = "registry" -> {"loginServer", "name", "id"}
      [] m = "monitoring" ->
            {"logAnalyticsWorkspaceId", "logAnalyticsCustomerId",
             "appInsightsConnectionString", "appInsightsInstrumentationKey"}
      [] m = "database" ->
            {"serverName", "serverFqdn", "databaseName", "connectionString"}
      [] OTHER -> {"fqdn", "url", "name"}

\* the output declarations of each module
ModuleOutputs(m) ==
    CASE m = "identity" -> {"identityId", "principalId", "clientId"}
      [] m = "registry" -> {"loginServer", "name", "id"}
      [] m = "monitoring" ->
            {"logAnalyticsWorkspaceId", "logAnalyticsCustomerId",
             "logAnalyticsSharedKey", "appInsightsConnectionString",
             "appInsightsInstrumentationKey"}
      [] m = "database" ->
            {"serverName", "serverFqdn", "databaseName", "connectionString"}
      [] OTHER -> {"fqdn", "url", "name"}

\* the resources each module declares, with the settings that depend on the
\* environment parameter
ModuleResources(m, env) ==
    CASE m = "identity" ->
            { [type |-> "Microsoft.ManagedIdentity/userAssignedIdentities"] }
      [] m = "registry" ->
            { [type |-> "Microsoft.ContainerRegistry/registries"],
              [type |-> "Microsoft.Authorization/roleAssignments"] }
      [] m = "monitoring" ->
            { [type |-> "Microsoft.OperationalInsights/workspaces",
               retentionInDays |-> IF env = "prod" THEN 90 ELSE 30],
              [type |-> "Microsoft.Insights/components",
               retentionInDays |-> IF env = "prod" THEN 90 ELSE 30] }
      [] m = "database" ->
            { [type |-> "Microsoft.DBforPostgreSQL/flexibleServers",
               sku |-> CASE env = "prod" -> "Standard_D2s_v3"
                         [] env = "staging" -> "Standard_B2s"
                         [] OTHER -> "Standard_B1ms"],
              [type |-> "Microsoft.DBforPostgreSQL/flexibleServers/databases"],
              [type |-> "Microsoft.DBforPostgreSQL/flexibleServers/firewallRules"] }
      [] OTHER ->
            { [type |-> "Microsoft.App/managedEnvironments",
               zoneRedundant |-> (env = "prod")],
              [type |-> "Microsoft.App/containerApps",
               minReplicas |-> IF env = "prod" THEN 1 ELSE 0,
               maxReplicas |-> IF env = "prod" THEN 10 ELSE 3] }

\* which output of which module is passed to which param of which module
\* (the template that calls the modules)
ModuleWiring ==
    { [to |-> "registry", param |-> "identityPrincipalId",
       from |-> "identity", output |-> "principalId"],
      [to |-> "compute", param |-> "logAnalyticsCustomerId",
       from |-> "monitoring", output |-> "logAnalyticsCustomerId"],
      [to |-> "compute", param |-> "logAnalyticsSharedKey",
       from |-> "monitoring", output |-> "logAnalyticsSharedKey"],
      [to |-> "compute", param |-> "appInsightsConnectionString",
       from |-> "monitoring", output |-> "appInsightsConnectionString"],
      [to |-> "compute", param |-> "acrLoginServer",
       from |-> "registry", output |-> "loginServer"],
      [to |-> "compute", param |-> "identityId",
       from |-> "identity", output |-> "identityId"],
      [to |-> "compute", param |-> "databaseUrl",
       from |-> "database", output |-> "connectionString"] }

DeployedModules == {deployed[k].module : k \in 1..Len(deployed)}

\* values given to the parameters that no module supplies
DeployParamValues ==
    [administratorPassword : {"pg-Passw0rd"},
     betterAuthSecret : {"c2VjcmV0LW9uZQ==", "c2VjcmV0LXR3bw=="},
     betterAuthUrl : {"https://ca-app-dev-weu.azurecontainerapps.io", ""},
     containerImage : {"", "acrappdevweu.azurecr.io/app:1"}]

\* the value of an output of a module; connectionString is built by the
\* database module from the administrator login and password
OutputValue(m, o, params) ==
    IF m = "database" /\ o = "connectionString"
    THEN "postgresql://" \o "pgadmin" \o ":" \o params.administratorPassword
         \o "@" \o "database.serverFqdn" \o ":5432/" \o "app"
         \o "?sslmode=require"
    ELSE m \o "." \o o

\* the value the param of a module receives: an output of another module
\* where the modules are wired, a parameter of the deployment otherwise
ParamValue(m, param, params) ==
    IF \E w \in ModuleWiring : w.to = m /\ w.param = param
    THEN LET w == CHOOSE w \in ModuleWiring : w.to = m /\ w.param = param
         IN  OutputValue(w.from, w.output, params)
    ELSE params[param]

EnvVar(name, secretRef, value) ==
    [name |-> name, secretRef |-> secretRef, value |-> value]

\* a variant that passes the database connection string as a plain value
ContainerApp_PlainDatabaseUrl(p) ==
    [ image |-> IF p.containerImage # "" THEN p.containerImage
                ELSE "mcr.microsoft.com/azuredocs/containerapps-helloworld:latest",
      registries |-> IF p.acrLoginServer # ""
                     THEN << [server |-> p.acrLoginServer, identity |-> p.identityId] >>
                     ELSE <<>>,
      secrets |-> << [name |-> "database-url", value |-> p.databaseUrl],
                     [name |-> "better-auth-secret", value |-> p.betterAuthSecret] >>,
      env |-> << EnvVar("DATABASE_URL", Undefined, p.databaseUrl),
                 EnvVar("BETTER_AUTH_SECRET", "better-auth-secret", Undefined),
                 EnvVar("BETTER_AUTH_URL", Undefined, p.betterAuthUrl),
                 EnvVar("APPLICATIONINSIGHTS_CONNECTION_STRING", Undefined,
                        p.appInsightsConnectionString),
                 EnvVar("NODE_ENV", Undefined, "production") >> ]

\* resource containerApp of container-app.bicep: image, registries,
\* configuration.secrets and the env of the container
ContainerApp(p) ==
    [ image |-> IF p.containerImage # "" THEN p.containerImage
                ELSE "mcr.microsoft.com/azuredocs/containerapps-helloworld:latest",
      registries |-> IF p.acrLoginServer # ""
                     THEN << [server |-> p.acrLoginServer, identity |-> p.identityId] >>
                     ELSE <<>>,
      secrets |-> << [name |-> "database-url", value |-> p.databaseUrl],
                     [name |-> "better-auth-secret", value |-> p.betterAuthSecret] >>,
      env |-> << EnvVar("DATABASE_URL", "database-url", Undefined),
                 EnvVar("BETTER_AUTH_SECRET", "better-auth-secret", Undefined),
                 EnvVar("BETTER_AUTH_URL", Undefined, p.betterAuthUrl),
                 EnvVar("APPLICATIONINSIGHTS_CONNECTION_STRING", Undefined,
                        p.appInsightsConnectionString),
                 EnvVar("NODE_ENV", Undefined, "production") >> ]

\* the params of the container-app module that its containerApp resource uses
ContainerAppParams(params) ==
    [q \in {"containerImage", "acrLoginServer", "identityId", "databaseUrl",
            "betterAuthSecret", "betterAuthUrl", "appInsightsConnectionString"}
        |-> ParamValue("compute", q, params)]

ModulesInit ==
    /\ environment \in Environments
    /\ deployed = <<>>
    /\ outputs = {}
    /\ deployParams \in DeployParamValues
    /\ containerApp = NoContainerApp
    /\ SchemaIdle /\ FormIdle /\ HeaderIdle /\ MainIdle /\ OidcIdle

\* the resource manager deploys a module once every output its params refer to
\* exists
DeployModule(m) ==
    /\ m \notin DeployedModules
    /\ \A w \in ModuleWiring :
          w.to = m => (w.param \in ModuleParams(m) /\ <<w.from, w.output>> \in outputs)
    /\ deployed' = Append(deployed,
          [module |-> m, resources |-> ModuleResources(m, environment)])
    /\ outputs' = outputs \cup {<<m, o>> : o \in ModuleOutputs(m)}
    /\ containerApp' = IF m = "compute"
                       THEN ContainerApp(ContainerAppParams(deployParams))
                       ELSE containerApp
    /\ UNCHANGED <<environment, deployParams, schemaVars, formVars, headerVars,
                   mainVars, oidcVars>>

ModulesNext == \E m \in Modules : DeployModule(m)

SpecModules == ModulesInit /\ [][ModulesNext]_vars

-----------------------------------------------------------------------------
(* infrastructure/main.bicep *)

\* the resources main.bicep declares; applicationInsights is conditional
MainResources(enableAI) ==
    {"storageAccount", "blobService", "cacheContainer", "assetsContainer",
     "optimizedImagesContainer", "tableService", "tagTable", "queueService",
     "revalidationQueue", "appServicePlan", "functionApp"}
    \cup (IF enableAI THEN {"applicationInsights"} ELSE {})

ResourceType(r) ==
    CASE r = "applicationInsights" -> "Microsoft.Insights/components"
      [] r = "storageAccount" -> "Microsoft.Storage/storageAccounts"
      [] r = "blobService" -> "Microsoft.Storage/storageAccounts/blobServices"
      [] r \in {"cacheContainer", "assetsContainer", "optimizedImagesContainer"} ->
            "Microsoft.Storage/storageAccounts/blobServices/containers"
      [] r = "tableService" -> "Microsoft.Storage/storageAccounts/tableServices"
      [] r = "tagTable" -> "Microsoft.Storage/storageAccounts/tableServices/tables"
      [] r = "queueService" -> "Microsoft.Storage/storageAccounts/queueServices"
      [] r = "revalidationQueue" ->
            "Microsoft.Storage/storageAccounts/queueServices/queues"
      [] r = "appServicePlan" -> "Microsoft.Web/serverfarms"
      [] OTHER -> "Microsoft.Web/sites"

\* the resources a resource is nested in or refers to
DependsOn(r, enableAI) ==
    CASE r \in {"blobService", "tableService", "queueService"} -> {"storageAccount"}
      [] r \in {"cacheContainer", "assetsContainer", "optimizedImagesContainer"} ->
            {"blobService"}
      [] r = "tagTable" -> {"tableService"}
      [] r = "revalidationQueue" -> {"queueService"}
      [] r = "functionApp" ->
            {"appServicePlan", "storageAccount"}
            \cup (IF enableAI THEN {"applicationInsights"} ELSE {})
      [] OTHER -> {}

\* Bicep string functions, on strings as sequences of characters
LowerOf(c) ==
    CASE c = "A" -> "a" [] c = "B" -> "b" [] c = "C" -> "c" [] c = "D" -> "d"
      [] c = "E" -> "e" [] c = "F" -> "f" [] c = "G" -> "g" [] c = "H" -> "h"
      [] c = "I" -> "i" [] c = "J" -> "j" [] c = "K" -> "k" [] c = "L" -> "l"
      [] c = "M" -> "m" [] c = "N" -> "n" [] c = "O" -> "o" [] c = "P" -> "p"
      [] c = "Q" -> "q" [] c = "R" -> "r" [] c = "S" -> "s" [] c = "T" -> "t"
      [] c = "U" -> "u" [] c = "V" -> "v" [] c = "W" -> "w" [] c = "X" -> "x"
      [] c = "Y" -> "y" [] c = "Z" -> "z" [] OTHER -> c
toLower(s) == [i \in 1..Len(s) |-> LowerOf(s[i])]
\* replace(s, c, ''): every occurrence of the character c removed
replace(s, c) == SelectSeq(s, LAMBDA x : x # c)
take(s, n) == SubSeq(s, 1, IF Len(s) < n THEN Len(s) ELSE n)
substring(s, start, length) == SubSeq(s, start + 1, start + length)

\* var regionCodes
regionCodes ==
    { [key |-> <<"w", "e", "s", "t", "e", "u", "r", "o", "p", "e">>,
       value |-> <<"w", "e", "u">>],
      [key |-> <<"n", "o", "r", "t", "h", "e", "u", "r", "o", "p", "e">>,
       value |-> <<"n", "e", "u">>],
      [key |-> <<"s", "w", "e", "d", "e", "n", "c", "e", "n", "t", "r", "a", "l">>,
       value |-> <<"s", "w", "e">>],
      [key |-> <<"f", "r", "a", "n", "c", "e", "c", "e", "n", "t", "r", "a", "l">>,
       value |-> <<"f", "r", "a">>],
      [key |-> <<"g", "e", "r", "m", "a", "n", "y", "w", "e", "s", "t", "c", "e", "n", "t", "r", "a", "l">>,
       value |-> <<"g", "w", "c">>],
      [key |-> <<"u", "k", "s", "o", "u", "t", "h">>,
       value |-> <<"u", "k", "s">>],
      [key |-> <<"u", "k", "w", "e", "s", "t">>,
       value |-> <<"u", "k", "w">>],
      [key |-> <<"e", "a", "s", "t", "u", "s">>,
       value |-> <<"e", "u", "s">>],
      [key |-> <<"e", "a", "s", "t", "u", "s", "2">>,
       value |-> <<"e", "u", "s", "2">>],
      [key |-> <<"w", "e", "s", "t", "u", "s">>,
       value |-> <<"w", "u", "s">>],
      [key |-> <<"w", "e", "s", "t", "u", "s", "2">>,
       value |-> <<"w", "u", "s", "2">>],
      [key |-> <<"w", "e", "s", "t", "u", "s", "3">>,
       value |-> <<"w", "u", "s", "3">>],
      [key |-> <<"c", "e", "n", "t", "r", "a", "l", "u", "s">>,
       value |-> <<"c", "u", "s">>],
      [key |-> <<"n", "o", "r", "t", "h", "c", "e", "n", "t", "r", "a", "l", "u", "s">>,
       value |-> <<"n", "c", "u", "s">>],
      [key |-> <<"s", "o", "u", "t", "h", "c", "e", "n", "t", "r", "a", "l", "u", "s">>,
       value |-> <<"s", "c", "u", "s">>],
      [key |-> <<"c", "a", "n", "a", "d", "a", "c", "e", "n", "t", "r", "a", "l">>,
       value |-> <<"c", "a", "c">>],
      [key |-> <<"c", "a", "n", "a", "d", "a", "e", "a", "s", "t">>,
       value |-> <<"c", "a", "e">>],
      [key |-> <<"b", "r", "a", "z", "i", "l", "s", "o", "u", "t", "h">>,
       value |-> <<"b", "r", "s">>],
      [key |-> <<"a", "u", "s", "t", "r", "a", "l", "i", "a", "e", "a", "s", "t">>,
       value |-> <<"a", "u", "e">>],
      [key |-> <<"a", "u", "s", "t", "r", "a", "l", "i", "a", "s", "o", "u", "t", "h", "e", "a", "s", "t">>,
       value |-> <<"a", "u", "s", "e">>],
      [key |-> <<"j", "a", "p", "a", "n", "e", "a", "s", "t">>,
       value |-> <<"j", "p", "e">>],
      [key |-> <<"j", "a", "p", "a", "n", "w", "e", "s", "t">>,
       value |-> <<"j", "p", "w">>],
      [key |-> <<"k", "o", "r", "e", "a", "c", "e", "n", "t", "r", "a", "l">>,
       value |-> <<"k", "r", "c">>],
      [key |-> <<"k", "o", "r", "e", "a", "s", "o", "u", "t", "h">>,
       value |-> <<"k", "r", "s">>],
      [key |-> <<"s", "o", "u", "t", "h", "e", "a", "s", "t", "a", "s", "i", "a">>,
       value |-> <<"s", "e", "a">>],
      [key |-> <<"e", "a", "s", "t", "a", "s", "i", "a">>,
       value |-> <<"e", "a">>],
      [key |-> <<"c", "e", "n", "t", "r", "a", "l", "i", "n", "d", "i", "a">>,
       value |-> <<"i", "n", "c">>],
      [key |-> <<"s", "o", "u", "t", "h", "i", "n", "d", "i", "a">>,
       value |-> <<"i", "n", "s">>],
      [key |-> <<"w", "e", "s", "t", "i", "n", "d", "i", "a">>,
       value |-> <<"i", "n", "w">>] }

\* contains(regionCodes, location) and regionCodes[location]: the resource
\* manager compares the keys of an object without regard to case
contains(object, key) == \E e \in object : e.key = toLower(key)
Lookup(object, key) == (CHOOSE e \in object : e.key = toLower(key)).value

\* the environment parameter as a sequence of characters
EnvironmentChars(env) ==
    CASE env = "dev" -> <<"d", "e", "v">>
      [] env = "test" -> <<"t", "e", "s", "t">>
      [] env = "staging" -> <<"s", "t", "a", "g", "i", "n", "g">>
      [] OTHER -> <<"p", "r", "o", "d">>

RegionCodeLen == 3
StorageNameMax == 24

regionCode(loc) ==
    IF contains(regionCodes, loc)
    THEN Lookup(regionCodes, loc)
    ELSE substring(replace(loc, " "), 0, RegionCodeLen)
sanitizedAppName(app) == replace(toLower(app), "-")
storageAccountName(app, env, loc) ==
    take(<<"s", "t">> \o sanitizedAppName(app) \o EnvironmentChars(env)
            \o regionCode(loc),
         StorageNameMax)

\* values of the appName parameter: the examples of its description, one with
\* capitals and a hyphen, and one long enough for take to cut the name
AppNames ==
    { <<"w", "e", "b", "a", "p", "p">>,
      <<"d", "a", "t", "a", "-", "p", "r", "o", "c", "e", "s", "s", "o", "r">>,
      <<"M", "y", "-", "A", "p", "p">>,
      <<"n", "e", "x", "t", "j", "s", "-", "t", "e", "m", "p", "l", "a", "t", "e", "-", "s", "t", "o", "r", "e", "f", "r", "o", "n", "t">> }

\* values of the location parameter: region names as resourceGroup().location
\* gives them, with and without an entry in regionCodes, and region names
\* written as display names
Locations ==
    { <<"w", "e", "s", "t", "e", "u", "r", "o", "p", "e">>,
      <<"e", "a", "s", "t", "u", "s", "2">>,
      <<"W", "e", "s", "t", " ", "E", "u", "r", "o", "p", "e">>,
      <<"n", "o", "r", "w", "a", "y", "e", "a", "s", "t">>,
      <<"N", "o", "r", "w", "a", "y", " ", "E", "a", "s", "t">> }

MainInit ==
    /\ environment \in Environments
    /\ enableApplicationInsights \in BOOLEAN
    /\ created = {}
    /\ appName \in AppNames
    /\ location \in Locations
    /\ storageName = <<>>
    /\ SchemaIdle /\ FormIdle /\ HeaderIdle /\ ModulesIdle /\ OidcIdle

\* the resource manager creates a resource once the ones it depends on exist
CreateResource(r) ==
    /\ r \in MainResources(enableApplicationInsights) \ created
    /\ DependsOn(r, enableApplicationInsights) \subseteq created
    /\ created' = created \cup {r}
    /\ storageName' = IF r = "storageAccount"
                      THEN storageAccountName(appName, environment, location)
                      ELSE storageName
    /\ UNCHANGED <<environment, enableApplicationInsights, appName, location,
                   schemaVars, formVars, headerVars, moduleVars, oidcVars>>

MainNext == \E r \in MainResources(TRUE) : CreateResource(r)

SpecMain == MainInit /\ [][MainNext]_vars

-----------------------------------------------------------------------------
(* scripts/setup-oidc.sh.  Every az command is a step that ends with status  *)
(* 0 or with one of az's failure statuses; the echo lines that follow a      *)
(* command run in the same step.  A line of the output is <<label, value>>.  *)

APP_NAME == "nextjs-template"
GITHUB_ORG == "thomvandervelden"
GITHUB_REPO == "next-template"

SubscriptionIds == {"sub-1", "sub-2"}
TenantIds == {"tenant-1", "tenant-2"}
AppIds == {"app-1", "app-2"}
SpIds == {"sp-1"}
AzStatus == {0, 1, 2}

Line(label, value) == <<label, value>>
Banner ==
    <<Line("GitHub Actions OIDC Setup for Azure", ""),
      Line("App Name", APP_NAME),
      Line("GitHub", GITHUB_ORG \o "/" \o GITHUB_REPO)>>
NotLoggedIn == Line("Error: Not logged in to Azure. Run 'az login' first.", "")
Az(cmd, args, status) == [cmd |-> cmd, args |-> args, ok |-> status = 0]
Subject(entity) == "repo:" \o GITHUB_ORG \o "/" \o GITHUB_REPO \o ":" \o entity

OidcInit ==
    /\ pc = "login" /\ stdout = <<>> /\ azCalls = <<>> /\ exitStatus = -1
    /\ subscriptionId = "" /\ tenantId = "" /\ appId = ""
    /\ envs = <<"dev", "staging", "prod">>
    /\ environment = "dev"
    /\ SchemaIdle /\ FormIdle /\ HeaderIdle /\ ModulesIdle /\ MainIdle

OidcOthers ==
    UNCHANGED <<schemaVars, formVars, headerVars, environment, moduleVars,
                mainVars>>

\* set -e: the script ends at the first command that fails, with its status.
RunAz_NoSetE(call, status, before, after, next) ==
    /\ azCalls' = Append(azCalls, call)
    /\ stdout' = stdout \o before \o after
    /\ pc' = next
    /\ UNCHANGED exitStatus

RunAz(call, status, before, after, next) ==
    /\ azCalls' = Append(azCalls, call)
    /\ IF status = 0
       THEN /\ stdout' = stdout \o before \o after
            /\ pc' = next
            /\ UNCHANGED exitStatus
       ELSE /\ stdout' = stdout \o before
            /\ pc' = "exited"
            /\ exitStatus' = status

CheckLogin_NoExit ==
    /\ pc = "login"
    /\ \E status \in AzStatus :
          /\ azCalls' = Append(azCalls, Az("account show", <<>>, status))
          /\ stdout' = stdout \o Banner \o
                       (IF status = 0 THEN <<>> ELSE <<NotLoggedIn>>)
          /\ pc' = "subscription"
          /\ UNCHANGED exitStatus
    /\ UNCHANGED <<subscriptionId, tenantId, appId, envs>>
    /\ OidcOthers

CheckLogin ==
    /\ pc = "login"
    /\ \E status \in AzStatus :
          /\ azCalls' = Append(azCalls, Az("account show", <<>>, status))
          /\ IF status = 0
             THEN /\ stdout' = stdout \o Banner
                  /\ pc' = "subscription"
                  /\ UNCHANGED exitStatus
             ELSE /\ stdout' = stdout \o Banner \o <<NotLoggedIn>>
                  /\ pc' = "exited"
                  /\ exitStatus' = 1
    /\ UNCHANGED <<subscriptionId, tenantId, appId, envs>>
    /\ OidcOthers

GetSubscriptionId ==
    /\ pc = "subscription"
    /\ \E status \in AzStatus, id \in SubscriptionIds :
          /\ RunAz(Az("account show", <<"id">>, status), status,
                   <<>>, <<>>, "tenant")
          /\ subscriptionId' = IF status = 0 THEN id ELSE subscriptionId
    /\ UNCHANGED <<tenantId, appId, envs>>
    /\ OidcOthers

GetTenantId ==
    /\ pc = "tenant"
    /\ \E status \in AzStatus, id \in TenantIds :
          /\ RunAz(Az("account show", <<"tenantId">>, status), status, <<>>,
                   <<Line("Subscription ID", subscriptionId),
                     Line("Tenant ID", id)>>,
                   "app")
          /\ tenantId' = IF status = 0 THEN id ELSE tenantId
    /\ UNCHANGED <<subscriptionId, appId, envs>>
    /\ OidcOthers

CreateApp ==
    /\ pc = "app"
    /\ \E status \in AzStatus, id \in AppIds :
          /\ RunAz(Az("ad app create",
                      <<"github-" \o APP_NAME \o "-deployment">>, status),
                   status,
                   <<Line("Creating Microsoft Entra Application...", "")>>,
                   <<Line("App (Client) ID", id)>>,
                   "sp")
          /\ appId' = IF status = 0 THEN id ELSE appId
    /\ UNCHANGED <<subscriptionId, tenantId, envs>>
    /\ OidcOthers

CreateServicePrincipal ==
    /\ pc = "sp"
    /\ \E status \in AzStatus, id \in SpIds :
          RunAz(Az("ad sp create", <<appId>>, status), status,
                <<Line("Creating Service Principal...", "")>>,
                <<Line("Service Principal ID", id),
                  Line("Waiting for Azure AD propagation...", "")>>,
                "role")
    /\ UNCHANGED <<subscriptionId, tenantId, appId, envs>>
    /\ OidcOthers

AssignRole ==
    /\ pc = "role"
    /\ \E status \in AzStatus :
          RunAz(Az("role assignment create",
                   <<appId, "Contributor", "/subscriptions/" \o subscriptionId>>,
                   status),
                status,
                <<Line("Assigning Contributor role...", "")>>,
                <<Line("Configuring federated credentials...", "")>>,
                "main")
    /\ UNCHANGED <<subscriptionId, tenantId, appId, envs>>
    /\ OidcOthers

FederatedCredential(name, subject, status) ==
    Az("ad app federated-credential create", <<appId, name, subject>>, status)

CreateMainBranchCredential ==
    /\ pc = "main"
    /\ \E status \in AzStatus :
          RunAz(FederatedCredential("github-main-branch",
                                    Subject("ref:refs/heads/main"), status),
                status, <<Line("  - main branch...", "")>>, <<>>, "pr")
    /\ UNCHANGED <<subscriptionId, tenantId, appId, envs>>
    /\ OidcOthers

CreatePullRequestCredential ==
    /\ pc = "pr"
    /\ \E status \in AzStatus :
          RunAz(FederatedCredential("github-pull-requests",
                                    Subject("pull_request"), status),
                status, <<Line("  - pull requests...", "")>>, <<>>, "env")
    /\ UNCHANGED <<subscriptionId, tenantId, appId, envs>>
    /\ OidcOthers

CreateEnvironmentCredential ==
    /\ pc = "env"
    /\ envs # <<>>
    /\ \E status \in AzStatus :
          /\ RunAz(FederatedCredential("github-env-" \o Head(envs),
                                       Subject("environment:" \o Head(envs)),
                                       status),
                   status,
                   <<Line("  - " \o Head(envs) \o " environment...", "")>>,
                   <<>>,
                   IF Tail(envs) = <<>> THEN "summary" ELSE "env")
          /\ envs' = IF status = 0 THEN Tail(envs) ELSE envs
    /\ UNCHANGED <<subscriptionId, tenantId, appId>>
    /\ OidcOthers

PrintSummary ==
    /\ pc = "summary"
    /\ stdout' = stdout \o
          <<Line("Setup Complete!", ""),
            Line("Add these secrets to your GitHub repository:", ""),
            Line("AZURE_CLIENT_ID", appId),
            Line("AZURE_TENANT_ID", tenantId),
            Line("AZURE_SUBSCRIPTION_ID", subscriptionId),
            Line("Next steps:", "")>>
    /\ pc' = "exited"
    /\ exitStatus' = 0
    /\ UNCHANGED <<azCalls, subscriptionId, tenantId, appId, envs>>
    /\ OidcOthers

OidcNext ==
    \/ CheckLogin
    \/ GetSubscriptionId
    \/ GetTenantId
    \/ CreateApp
    \/ CreateServicePrincipal
    \/ AssignRole
    \/ CreateMainBranchCredential
    \/ CreatePullRequestCredential
    \/ CreateEnvironmentCredential
    \/ PrintSummary

SpecOidc == OidcInit /\ [][OidcNext]_vars

-----------------------------------------------------------------------------
(* Claims about the schemas *)

IssuesOn(field) == {j \in 1..Len(result.issues) : result.issues[j].path = <<field>>}
HasIssue(field, message) == \E j \in IssuesOn(field) : result.issues[j].message = message

\* C5: signUpSchema accepts a name only if its length is at least 2 and less
\* than 100; a shorter name is rejected with "Name must be at least 2
\* characters" and a name of length 100 or more with "Name must be less than
\* 100 characters".
C5_NameLessThan100 ==
    (Parsed /\ schemaName = "signUpSchema") =>
        /\ result.success => (Len(input.name) >= 2 /\ Len(input.name) < 100)
        /\ Len(input.name) < 2 =>
              HasIssue("name", "Name must be at least 2 characters")
        /\ Len(input.name) >= 100 =>
              HasIssue("name", "Name must be less than 100 characters")

PwRuleViolations(p) ==
    (IF Len(p) < 8 THEN {"Password must be at least 8 characters"} ELSE {})
    \cup (IF \E i \in 1..Len(p) : p[i] \in UpperAZ THEN {}
          ELSE {"Password must contain at least one uppercase letter"})
    \cup (IF \E i \in 1..Len(p) : p[i] \in LowerAZ THEN {}
          ELSE {"Password must contain at least one lowercase letter"})
    \cup (IF \E i \in 1..Len(p) : p[i] \in Digit09 THEN {}
          ELSE {"Password must contain at least one number"})

\* C6: signUpSchema accepts a password iff it has at least 8 characters, an
\* uppercase letter, a lowercase letter and a digit; each violated rule
\* produces its own issue, with its own message, on field password.
C6_PasswordRules ==
    (Parsed /\ schemaName = "signUpSchema") =>
        /\ (IssuesOn("password") = {}) <=> (PwRuleViolations(input.password) = {})
        /\ {result.issues[j].message : j \in IssuesOn("password")}
              = PwRuleViolations(input.password)
        /\ Cardinality(IssuesOn("password"))
              = Cardinality(PwRuleViolations(input.password))
        /\ (IssuesOn("name") = {} /\ IssuesOn("email") = {}) =>
              (result.success <=> PwRuleViolations(input.password) = {})

\* a password of 8 characters that breaks the uppercase and the digit rule only
C6_Witness ==
    /\ Parsed /\ schemaName = "signUpSchema"
    /\ Len(input.password) = 8
    /\ Cardinality(IssuesOn("password")) = 2
    /\ HasIssue("password", "Password must contain at least one number")
    /\ ~result.success

\* C7: signInSchema accepts an input iff email is a well-formed address and
\* password is not empty; a malformed email yields "Invalid email address" on
\* email, an empty password "Password is required" on password, and both
\* issues are reported together when both fields are invalid.
C7_SignInSchema ==
    (Parsed /\ schemaName = "signInSchema") =>
        /\ result.success <=> (IsEmail(input.email) /\ Len(input.password) >= 1)
        /\ result.success => result.data = input
        /\ ~IsEmail(input.email) <=> HasIssue("email", "Invalid email address")
        /\ Len(input.password) = 0 <=> HasIssue("password", "Password is required")
        /\ Len(result.issues)
              = (IF IsEmail(input.email) THEN 0 ELSE 1)
                + (IF Len(input.password) = 0 THEN 1 ELSE 0)

\* both fields invalid: the two issues are reported by the same safeParse
C7_Witness ==
    /\ Parsed /\ schemaName = "signInSchema"
    /\ ~IsEmail(input.email) /\ input.email # <<>> /\ input.password = <<>>
    /\ Len(result.issues) = 2

-----------------------------------------------------------------------------
(* Claims about the form components *)

CallsOf(i) == {k \in 1..Len(authCalls) : authCalls[k].submit = i}
RouterCallsOf(i) == {k \in 1..Len(routerCalls) : routerCalls[k].submit = i}
Messages(errs) == {f \in DOMAIN errs : errs[f] # Undefined}
FieldsWithIssue(issues) == {issues[j].path[1] : j \in 1..Len(issues)}

\* C1: the auth call is made only after safeParse succeeded on the form data of
\* the same submit, it carries exactly the parsed data of that snapshot
\* whatever handleChange does afterwards, and no call is made for a submit
\* whose validation failed.
C1_AuthCallOnlyAfterValidation ==
    /\ \A k \in 1..Len(authCalls) :
          /\ authCalls[k].submit \in 1..Len(submits)
          /\ LET r == Parse(schema, submits[authCalls[k].submit].formData)
             IN  r.success /\ authCalls[k].data = r.data
    /\ \A i \in 1..Len(submits) :
          IF Parse(schema, submits[i].formData).success
          THEN Cardinality(CallsOf(i)) = 1
          ELSE CallsOf(i) = {}

\* a request is in flight, the form was edited since, and a later submit of the
\* edited data failed validation
C1_Witness ==
    /\ Len(authCalls) = 1 /\ authCalls[1].status = "pending"
    /\ Len(submits) = 2 /\ ~submits[2].valid
    /\ [f \in FieldsOf(schema) |-> formData[f]] # authCalls[1].data

\* C2: when handleSubmit runs on form data the schema rejects, the resulting
\* state has a message in errors for exactly the fields with a schema issue,
\* submitError is empty, loading is false, and the router is not called.
C2_ValidationFailure ==
    [][ (Len(submits') = Len(submits) + 1 /\ ~Parse(schema, formData).success) =>
          /\ Messages(errors') = FieldsWithIssue(Parse(schema, formData).issues)
          /\ submitError' = ""
          /\ loading' = FALSE
          /\ routerCalls' = routerCalls ]_vars

\* C3: when the auth call returns an error, submitError becomes error.message
\* if it is defined and the component's fallback otherwise, loading is reset to
\* false, errors stays empty, and the router is not called.
C3_AuthFailure ==
    [][ \A i \in 1..Len(authCalls) :
          (authCalls[i].status = "pending" /\ authCalls'[i].status = "error") =>
              /\ authCalls'[i].error.message # Undefined =>
                    submitError' = authCalls'[i].error.message
              /\ authCalls'[i].error.message = Undefined =>
                    /\ component = "SignIn" => submitError' = "Failed to sign in"
                    /\ component = "SignUp" => submitError' = "Failed to sign up"
                    /\ component = "useAuthForm" =>
                          submitError' = "An error occurred"
              /\ loading' = FALSE
              /\ Messages(errors') = {}
              /\ routerCalls' = routerCalls ]_vars

\* C4: a submit navigates iff its auth call returned without an error: then
\* router.push(redirectTo) ("/" on the pages) and router.refresh() are called,
\* in that order, once each; otherwise neither is ever called for it.
C4_NavigateIffAuthOk ==
    \A i \in 1..Len(submits) :
        IF \E k \in CallsOf(i) : authCalls[k].status = "ok"
        THEN \E n \in 1..(Len(routerCalls) - 1) :
                /\ RouterCallsOf(i) = {n, n + 1}
                /\ routerCalls[n].call = "push"
                /\ routerCalls[n].arg = redirectTo
                /\ component \in {"SignIn", "SignUp"} => routerCalls[n].arg = "/"
                /\ routerCalls[n + 1].call = "refresh"
        ELSE RouterCallsOf(i) = {}

\* one submit failed validation and another one navigated
C4_Witness ==
    /\ \E i \in 1..Len(submits) : ~submits[i].valid
    /\ \E k \in 1..Len(authCalls) : authCalls[k].status = "ok"
    /\ Len(routerCalls) = 2

\* C14: a handleChange(field, value) step sets formData[field] to value and
\* leaves that field without an error message; the other fields of formData,
\* the errors of the other fields, submitError and loading are unchanged, and
\* no submit is recorded, no auth call is started or settled and the router
\* is not called.
C14_HandleChangeFrame ==
    [][ event'.handler = "handleChange" =>
          /\ formData' = [formData EXCEPT ![event'.field] = event'.value]
          /\ DOMAIN errors' = DOMAIN errors
          /\ errors'[event'.field] = Undefined
          /\ \A g \in DOMAIN errors \ {event'.field} : errors'[g] = errors[g]
          /\ submitError' = submitError
          /\ loading' = loading
          /\ submits' = submits
          /\ authCalls' = authCalls
          /\ routerCalls' = routerCalls ]_vars

\* handleChange ran last, while a request is in flight and another field still
\* shows its validation error
C14_Witness ==
    /\ event.handler = "handleChange"
    /\ formData[event.field] = event.value
    /\ errors[event.field] = Undefined
    /\ \E g \in DOMAIN errors \ {event.field} : errors[g] # Undefined
    /\ loading

Settled(i, status) ==
    authCalls[i].status = "pending" /\ authCalls'[i].status = status

\* C15: at most one auth call of the form is in flight in any reachable state,
\* whatever the interleaving of submits, changes and auth responses.
C15_OneRequestInFlight == Cardinality(InFlight) <= 1

\* C16: the step in which the auth call of a submit settles, whether resolved
\* without error, resolved with an error or rejected, either navigates
\* (router.push then router.refresh) or re-enables the form (loading false and
\* a non-empty submitError).
C16_SubmitSettles ==
    [][ \A i \in 1..Len(authCalls) :
          (\E st \in {"ok", "error", "rejected"} : Settled(i, st)) =>
              \/ /\ Len(routerCalls') = Len(routerCalls) + 2
                 /\ routerCalls'[Len(routerCalls) + 1].call = "push"
                 /\ routerCalls'[Len(routerCalls) + 2].call = "refresh"
              \/ /\ loading' = FALSE
                 /\ submitError' # "" ]_vars

\* C17: loading is false before the first submit; it becomes true only in a
\* handleSubmit step whose validation succeeded and which starts the auth
\* call; it becomes false only in a step in which an auth call returns an
\* error; and once an auth call has succeeded loading is true.
C17_LoadingLifecycle ==
    [][ /\ submits = <<>> => ~loading
        /\ (~loading /\ loading') =>
              /\ event'.handler = "handleSubmit"
              /\ Parse(schema, formData).success
              /\ Len(authCalls') = Len(authCalls) + 1
        /\ (loading /\ ~loading') =>
              \E i \in 1..Len(authCalls) : Settled(i, "error")
        /\ (\E k \in 1..Len(authCalls') : authCalls'[k].status = "ok") =>
              loading' ]_vars

NoOverlap == \A i \in 1..Len(submits) : ~submits[i].overlaps

\* C18: as long as no submit ran while an auth call was in flight, errors and
\* submitError are never both non-empty: a submit step leaves submitError
\* empty, and errors empty too when validation succeeded; a step in which an
\* auth call returns an error leaves errors as it was.
C18_ErrorsExclusive ==
    [][ NoOverlap' =>
          /\ ~(Messages(errors) # {} /\ submitError # "")
          /\ ~(Messages(errors') # {} /\ submitError' # "")
          /\ event'.handler = "handleSubmit" =>
                /\ submitError' = ""
                /\ Parse(schema, formData).success => Messages(errors') = {}
          /\ (\E i \in 1..Len(authCalls) : Settled(i, "error")) =>
                errors' = errors ]_vars

\* without overlap: one submit failed validation, a later one reached the auth
\* client, which answered with an error that is shown
C18_Witness ==
    /\ NoOverlap
    /\ \E i \in 1..Len(submits) : ~submits[i].valid
    /\ \E k \in 1..Len(authCalls) : authCalls[k].status = "error"
    /\ submitError # "" /\ Messages(errors) = {}

-----------------------------------------------------------------------------
(* Claim about the Header *)

NavTexts == {nav[k].text : k \in 1..Len(nav)}

\* C8: for every combination of isPending and session the Header renders
\* exactly one of three views: nothing while isPending; the user's email and a
\* Sign Out button when not pending with a session; Sign In and Sign Up links
\* when not pending without a session.  Sign Out never appears together with
\* Sign In or Sign Up.
C8_HeaderViews ==
    /\ isPending => nav = <<>>
    /\ (~isPending /\ session # Null) =>
          /\ Len(nav) = 2
          /\ nav[1].el = "span" /\ nav[1].text = session.user.email
          /\ nav[2].el = "Button" /\ nav[2].text = "Sign Out"
    /\ (~isPending /\ session = Null) =>
          /\ Len(nav) = 2
          /\ nav[1].el = "Link" /\ nav[1].text = "Sign In"
          /\ nav[1].href = "/sign-in"
          /\ nav[2].el = "Link" /\ nav[2].text = "Sign Up"
          /\ nav[2].href = "/sign-up"
    /\ ~("Sign Out" \in NavTexts /\ NavTexts \cap {"Sign In", "Sign Up"} # {})

\* a session is held while useSession is pending again: nothing is rendered
C8_Witness ==
    /\ isPending /\ session # Null /\ nav = <<>>
    /\ headerRouter # <<>>

-----------------------------------------------------------------------------
(* Claims about the infrastructure *)

DeployOrder == <<"identity", "registry", "monitoring", "database", "compute">>
OrderIndex(m) == CHOOSE k \in 1..Len(DeployOrder) : DeployOrder[k] = m
DeployIndex(m) == CHOOSE k \in 1..Len(deployed) : deployed[k].module = m

\* C9: the modules can be deployed in the order identity, registry, monitoring,
\* database, compute: every input a module takes from another module is an
\* output of a module earlier in that order, and none needs an output of a
\* later one.
C9_ModuleOrder ==
    \* each module wired to another one is deployed after it, and the order of
    \* the claim agrees
    /\ \A m \in DeployedModules : \A w \in ModuleWiring :
          w.to = m =>
              /\ w.from \in DeployedModules
              /\ DeployIndex(w.from) < DeployIndex(m)
              /\ w.output \in ModuleOutputs(w.from)
              /\ OrderIndex(w.from) < OrderIndex(m)
    \* following the order of the claim, the next module can always be deployed
    /\ \A k \in 0..(Len(DeployOrder) - 1) :
          [j \in 1..Len(deployed) |-> deployed[j].module] = SubSeq(DeployOrder, 1, k)
              => \A w \in ModuleWiring :
                    w.to = DeployOrder[k + 1] => <<w.from, w.output>> \in outputs

\* all five modules were deployed in the order of the claim
C9_Witness ==
    [j \in 1..Len(deployed) |-> deployed[j].module] = DeployOrder

RequiredTypes ==
    {"Microsoft.ContainerRegistry/registries", "Microsoft.App/managedEnvironments",
     "Microsoft.App/containerApps", "Microsoft.DBforPostgreSQL/flexibleServers",
     "Microsoft.ManagedIdentity/userAssignedIdentities",
     "Microsoft.OperationalInsights/workspaces", "Microsoft.Insights/components"}

\* C10: deploying infrastructure/main.bicep creates a Container Registry, a
\* Container Apps Environment, a Container App, a PostgreSQL Flexible Server,
\* a Managed Identity, and Log Analytics plus Application Insights.
C10_MainCreatesContainerPlatform ==
    created = MainResources(enableApplicationInsights)
        => RequiredTypes \subseteq {ResourceType(r) : r \in created}

\* C19: the name the storage account is created with is at most 24 characters
\* long and contains no hyphen and no uppercase letter, for every appName,
\* environment and location.
C19_StorageAccountName ==
    "storageAccount" \in created =>
        /\ Len(storageName) <= 24
        /\ \A k \in 1..Len(storageName) :
              storageName[k] # "-" /\ storageName[k] \notin UpperAZ

-----------------------------------------------------------------------------
(* Claim about the container app *)

EnvOf(name) == {k \in 1..Len(containerApp.env) : containerApp.env[k].name = name}
SecretNames == {containerApp.secrets[k].name : k \in 1..Len(containerApp.secrets)}
SecureValues ==
    {ParamValue("compute", "databaseUrl", deployParams),
     ParamValue("compute", "betterAuthSecret", deployParams)}

\* C11: the container always receives DATABASE_URL, BETTER_AUTH_SECRET,
\* BETTER_AUTH_URL and APPLICATIONINSIGHTS_CONNECTION_STRING; the first two
\* only through secretRef; every secretRef names a secret declared in
\* configuration.secrets of the same app; the values of the secure params
\* databaseUrl and betterAuthSecret never appear as a plain env value.
C11_ContainerEnv ==
    "compute" \in DeployedModules =>
        /\ \A n \in {"DATABASE_URL", "BETTER_AUTH_SECRET", "BETTER_AUTH_URL",
                     "APPLICATIONINSIGHTS_CONNECTION_STRING"} :
              Cardinality(EnvOf(n)) = 1
        /\ \A n \in {"DATABASE_URL", "BETTER_AUTH_SECRET"} : \A k \in EnvOf(n) :
              /\ containerApp.env[k].secretRef # Undefined
              /\ containerApp.env[k].value = Undefined
        /\ \A k \in 1..Len(containerApp.env) :
              /\ containerApp.env[k].secretRef # Undefined =>
                    containerApp.env[k].secretRef \in SecretNames
              /\ containerApp.env[k].value \notin SecureValues
        /\ \E k \in 1..Len(containerApp.secrets) :
              /\ containerApp.secrets[k].name = "database-url"
              /\ containerApp.secrets[k].value
                    = ParamValue("compute", "databaseUrl", deployParams)

\* the container app was deployed without an image of its own and with an
\* empty betterAuthUrl
C11_Witness ==
    /\ "compute" \in DeployedModules
    /\ deployParams.containerImage = "" /\ deployParams.betterAuthUrl = ""
    /\ Len(containerApp.env) = 5

-----------------------------------------------------------------------------
(* Claims about scripts/setup-oidc.sh *)

Creations == SelectSeq(azCalls, LAMBDA c : c.cmd # "account show")
Credential(name, subject) ==
    [cmd |-> "ad app federated-credential create",
     args |-> <<appId, name,
                "repo:thomvandervelden/next-template:" \o subject>>,
     ok |-> TRUE]
AllCreated ==
    <<[cmd |-> "ad app create",
       args |-> <<"github-nextjs-template-deployment">>, ok |-> TRUE],
      [cmd |-> "ad sp create", args |-> <<appId>>, ok |-> TRUE],
      [cmd |-> "role assignment create",
       args |-> <<appId, "Contributor", "/subscriptions/" \o subscriptionId>>,
       ok |-> TRUE],
      Credential("github-main-branch", "ref:refs/heads/main"),
      Credential("github-pull-requests", "pull_request"),
      Credential("github-env-dev", "environment:dev"),
      Credential("github-env-staging", "environment:staging"),
      Credential("github-env-prod", "environment:prod")>>
SummaryLabels ==
    {"Setup Complete!", "AZURE_CLIENT_ID", "AZURE_TENANT_ID",
     "AZURE_SUBSCRIPTION_ID"}
Printed(label) == {k \in 1..Len(stdout) : stdout[k][1] = label}
SummaryPrinted == \E l \in SummaryLabels : Printed(l) # {}

\* C12: the lines "Setup Complete!", AZURE_CLIENT_ID, AZURE_TENANT_ID and
\* AZURE_SUBSCRIPTION_ID are printed only when the application, the service
\* principal, the Contributor role assignment at subscription scope and the
\* federated credentials for main, pull requests, dev, staging and prod were
\* created, in that order and all successfully; a command that fails is the
\* last one the script runs, the script has ended with a non-zero status and
\* none of these lines is printed.
C12_CompleteOnlyAfterAllSteps ==
    /\ SummaryPrinted =>
          /\ Creations = AllCreated
          /\ \A k \in 1..Len(azCalls) : azCalls[k].ok
          /\ \A l \in SummaryLabels : Cardinality(Printed(l)) = 1
          /\ \A k \in Printed("AZURE_CLIENT_ID") : stdout[k][2] = appId
          /\ \A k \in Printed("AZURE_TENANT_ID") : stdout[k][2] = tenantId
          /\ \A k \in Printed("AZURE_SUBSCRIPTION_ID") :
                stdout[k][2] = subscriptionId
    /\ \A k \in 1..Len(azCalls) :
          ~azCalls[k].ok =>
              /\ k = Len(azCalls)
              /\ pc = "exited"
              /\ exitStatus > 0
              /\ ~SummaryPrinted

\* The script has run to its end and printed the summary.
C12_Witness ==
    /\ pc = "exited" /\ exitStatus = 0
    /\ SummaryPrinted
    /\ Len(Creations) = 8

LoginCheckFailed == azCalls # <<>> /\ ~azCalls[1].ok

\* C13: when the first az account show fails, the script's last line of output
\* is the "Not logged in" error, it has exited with status 1, and it has run
\* no other az command: nothing was created.
C13_NotLoggedIn ==
    LoginCheckFailed =>
        /\ stdout # <<>>
        /\ stdout[Len(stdout)] =
              <<"Error: Not logged in to Azure. Run 'az login' first.", "">>
        /\ pc = "exited"
        /\ exitStatus = 1
        /\ Len(azCalls) = 1
        /\ Creations = <<>>

C13_Witness == LoginCheckFailed /\ exitStatus = 1

=============================================================================
